---------------------------- MODULE Spec2Model ----------------------------
(***************************************************************************)
(* Model of src/src/main.rs: a capture callback and a playback callback    *)
(* exchanging samples through one mutex-guarded buffer, a mutex-guarded    *)
(* pitch factor written by the console command loop, and the linear        *)
(* interpolation resampler pitch_shift.                                    *)
(*                                                                         *)
(* Numbers.  An f32 is modelled as a fixed-point number: the integer v     *)
(* stands for v / Den.  The presets 0.7, 1.0 and 1.3 are 7, 10 and 13.     *)
(* Samples are whole multiples of Den, so every product frac * (s2 - s1)   *)
(* is a whole number of units and the arithmetic below is exact.  The      *)
(* rounding of f32, its infinities and NaN are outside the model.          *)
(*                                                                         *)
(* Text.  A console line is a sequence of one-character strings.           *)
(***************************************************************************)
EXTENDS Integers, Sequences, FiniteSets, TLC

\* ------------------------------------------------------------------ bounds
\* Length of the shared buffer (1024 in the program, line 41).
BufLen == 2
\* Longest output block the device asks the playback callback to fill.
MaxOut == 3
\* Longest input sequence handed to pitch_shift on its own.
MaxLen == 3

\* --------------------------------------------------------------- constants
\* Fixed-point denominator: the integer v stands for the f32 value v / Den.
Den == 10
\* *factor = 0.7
LOW == 7
\* Mutex::new(1.0_f32), *factor = 1.0
NORMAL == 10
\* *factor = 1.3
HIGH == 13
\* vec![0.0_f32; 1024], unwrap_or(0.0)
Zero == 0
\* What the device's output block holds before the callback fills it.
Stale == 99

Min(a, b) == IF a < b THEN a ELSE b

\* ------------------------------------------------------------- pitch_shift
\* Variant of OutputLen that rounds the quotient to the nearest integer
\* instead of truncating it.
OutputLenRounded(input_len, pitch_factor) ==
    (input_len * Den + pitch_factor \div 2) \div pitch_factor

\* (input_len / pitch_factor) as usize: the quotient truncated toward zero.
OutputLen(input_len, pitch_factor) == (input_len * Den) \div pitch_factor

\* i as f32 * pitch_factor, in units of 1 / Den.
SrcIndex(i, pitch_factor) == i * pitch_factor

\* src_index.floor() as usize
Floor(src_index) == src_index \div Den

\* src_index.fract(), in units of 1 / Den.
Fract(src_index) == src_index % Den

\* Variant of GetOrZero that repeats the last sample past the end instead
\* of reading 0.0.
GetOrLast(samples, idx) ==
    IF idx < Len(samples) THEN samples[idx + 1] ELSE samples[Len(samples)]

\* samples.get(idx).copied().unwrap_or(0.0): idx counts from 0.
GetOrZero(samples, idx) == IF idx < Len(samples) THEN samples[idx + 1] ELSE Zero

\* Variant of Lerp with the two neighbours exchanged.
LerpSwapped(s1, s2, frac) == s2 + (frac * (s1 - s2)) \div Den

\* s1 + frac * (s2 - s1)
Lerp(s1, s2, frac) == s1 + (frac * (s2 - s1)) \div Den

\* The body of the loop of pitch_shift for one output index i.
ShiftSample(samples, pitch_factor, i) ==
    LET src_index == SrcIndex(i, pitch_factor)
        idx       == Floor(src_index)
        frac      == Fract(src_index)
        s1        == GetOrZero(samples, idx)
        s2        == GetOrZero(samples, idx + 1)
    IN  Lerp(s1, s2, frac)

\* for i in 0..output_len { output.push(...) }, from index i with `output`
\* pushed so far.
RECURSIVE ShiftLoop(_, _, _, _, _)
ShiftLoop(samples, pitch_factor, output_len, i, output) ==
    IF i < output_len
    THEN ShiftLoop(samples, pitch_factor, output_len, i + 1,
                   Append(output, ShiftSample(samples, pitch_factor, i)))
    ELSE output

pitch_shift(samples, pitch_factor) ==
    ShiftLoop(samples, pitch_factor,
              OutputLen(Len(samples), pitch_factor), 0, <<>>)

\* -------------------------------------------------------------- input sets
\* Sample values a capture block can carry (0.0, 1.0).
CapSamples == {0, Den}
\* Sample values of the sequences handed to pitch_shift on its own.
ShiftSamples == {-Den, 0, Den, 2 * Den}
\* Pitch factors handed to pitch_shift on its own: 0.5, the presets, 2.0, 2.5.
ShiftFactors == {5, LOW, NORMAL, HIGH, 20, 25}

RECURSIVE SeqsOfLen(_, _)
SeqsOfLen(S, n) ==
    IF n = 0 THEN {<<>>}
    ELSE {Append(s, x) : s \in SeqsOfLen(S, n - 1), x \in S}

SeqsUpTo(S, n) == UNION {SeqsOfLen(S, k) : k \in 0..n}

\* The two worked examples of the resampler: [0,1,..,7] and [0,2].
Ramp8 == <<0, 10, 20, 30, 40, 50, 60, 70>>
Pair02 == <<0, 20>>

ShiftInputs == SeqsUpTo(ShiftSamples, MaxLen) \cup {Ramp8, Pair02}


\* The console lines read_line can deliver: the four commands, unknown
\* text, a blank line, padded and multi-character lines, a last line
\* without newline, and the empty string read_line leaves at end of input.
Lines == { <<>>, <<"\n">>, <<"1", "\n">>, <<"2", "\n">>, <<"0", "\n">>,
           <<"q", "\n">>, <<"x", "\n">>, <<" ", "1", " ", "\n">>,
           <<"1", "0", "\n">>, <<"q">> }

\* --------------------------------------------------------------- str::trim
Whitespace == {" ", "\n", "\t", "\r"}

RECURSIVE TrimStart(_)
TrimStart(s) ==
    IF s # <<>> /\ Head(s) \in Whitespace THEN TrimStart(Tail(s)) ELSE s

RECURSIVE TrimEnd(_)
TrimEnd(s) ==
    IF s # <<>> /\ s[Len(s)] \in Whitespace
    THEN TrimEnd(SubSeq(s, 1, Len(s) - 1))
    ELSE s

Trim(s) == TrimEnd(TrimStart(s))

\* ------------------------------------------------------------------- state
VARIABLES
    buffer,          \* the Vec<f32> inside `buffer` (line 41)
    pitch_factor,    \* the f32 inside `pitch_factor` (line 42)
    bufLock,         \* holder of buffer's mutex: "none", "in" or "out"
    pitchLock,       \* holder of pitch_factor's mutex: "none", "out", "main"
    poisoned,        \* the mutexes poisoned by a panic of their holder
    pcIn,            \* input stream callback: position (a source line)
    data,            \* input stream callback: the captured block
    ci,              \* input stream callback: loop index i
    pcOut,           \* output stream callback: position
    output,          \* output stream callback: the block to fill
    factor,          \* output stream callback: local `factor`
    shifted,         \* output stream callback: local `shifted`
    pcMain,          \* command loop: position
    input,           \* command loop: the String `input`
    committed,       \* history: buffer as the last finished capture left it
    wroteSinceStart, \* history: *factor was assigned since the playback
                     \* invocation now in flight started
    samples,         \* pitch_shift called on its own: argument
    pitch_arg,       \* pitch_shift called on its own: argument
    result,          \* pitch_shift called on its own: return value
    called           \* pitch_shift called on its own: has returned

sharedVars == <<buffer, pitch_factor, bufLock, pitchLock, poisoned>>
inVars     == <<pcIn, data, ci>>
outVars    == <<pcOut, output, factor, shifted>>
mainVars   == <<pcMain, input>>
histVars   == <<committed, wroteSinceStart>>
pureVars   == <<samples, pitch_arg, result, called>>
vars == <<sharedVars, inVars, outVars, mainVars, histVars, pureVars>>

\* The captured blocks the device can deliver: shorter than, as long as and
\* longer than the buffer.
Blocks == SeqsUpTo(CapSamples, BufLen + 1)

\* main has not returned or panicked: the streams are alive.
Running == pcMain \notin {"returned", "failed", "panicked"}

\* Variant of ProgramInit whose buffer is allocated as vec![1.0_f32; 1024].
ProgramInitUnit ==
    /\ buffer = [i \in 1..BufLen |-> Den]
    /\ pitch_factor = NORMAL
    /\ bufLock = "none"
    /\ pitchLock = "none"
    /\ poisoned = {}
    /\ pcIn = "idle"
    /\ data = <<>>
    /\ ci = 0
    /\ pcOut = "idle"
    /\ output = <<>>
    /\ factor = NORMAL
    /\ shifted = <<>>
    /\ pcMain = "l81"
    /\ input = <<>>
    /\ committed = [i \in 1..BufLen |-> Den]
    /\ wroteSinceStart = FALSE

\* The state after lines 41-42 and before the streams play.
ProgramInit ==
    /\ buffer = [i \in 1..BufLen |-> Zero]
    /\ pitch_factor = NORMAL
    /\ bufLock = "none"
    /\ pitchLock = "none"
    /\ poisoned = {}
    /\ pcIn = "idle"
    /\ data = <<>>
    /\ ci = 0
    /\ pcOut = "idle"
    /\ output = <<>>
    /\ factor = NORMAL
    /\ shifted = <<>>
    /\ pcMain = "l81"
    /\ input = <<>>
    /\ committed = [i \in 1..BufLen |-> Zero]
    /\ wroteSinceStart = FALSE

Init ==
    /\ ProgramInit
    /\ samples = <<>>
    /\ pitch_arg = NORMAL
    /\ result = <<>>
    /\ called = FALSE

\* --------------------------------------------- input stream callback 48-53
\* The device invokes the callback with a captured block.
InInvokeOf(blocks) ==
    /\ pcIn = "idle"
    /\ Running
    /\ \E block \in blocks : data' = block
    /\ pcIn' = "l49"
    /\ UNCHANGED <<sharedVars, ci, outVars, mainVars, histVars, pureVars>>

InInvoke == InInvokeOf(Blocks)

\* Variant of InLock that enters the loop without taking the mutex.
InLockRacy ==
    /\ pcIn = "l49"
    /\ ci' = 0
    /\ pcIn' = "l50"
    /\ UNCHANGED <<sharedVars, data, outVars, mainVars, histVars, pureVars>>

\* let mut buf = buffer_in.lock().unwrap();
InLock ==
    /\ pcIn = "l49"
    /\ bufLock = "none"
    /\ "buffer" \notin poisoned
    /\ bufLock' = "in"
    /\ ci' = 0
    /\ pcIn' = "l50"
    /\ UNCHANGED <<buffer, pitch_factor, pitchLock, poisoned, data,
                   outVars, mainVars, histVars, pureVars>>

\* Variant of InWrite without take(buf.len()): a sample past the end of the
\* buffer is pushed onto it.
InWriteGrow ==
    /\ pcIn = "l50"
    /\ ci < Len(data)
    /\ buffer' = IF ci < Len(buffer)
                 THEN [buffer EXCEPT ![ci + 1] = data[ci + 1]]
                 ELSE Append(buffer, data[ci + 1])
    /\ ci' = ci + 1
    /\ UNCHANGED <<pitch_factor, bufLock, pitchLock, poisoned, pcIn, data,
                   outVars, mainVars, histVars, pureVars>>

\* One turn of for (i, sample) in data.iter().enumerate().take(buf.len()):
\* buf[i] = *sample.
InWrite ==
    /\ pcIn = "l50"
    /\ ci < Min(Len(data), Len(buffer))
    /\ buffer' = [buffer EXCEPT ![ci + 1] = data[ci + 1]]
    /\ ci' = ci + 1
    /\ UNCHANGED <<pitch_factor, bufLock, pitchLock, poisoned, pcIn, data,
                   outVars, mainVars, histVars, pureVars>>

\* Variant of InLoopEnd that clears the slots the block did not reach.
InLoopEndClearTail ==
    /\ pcIn = "l50"
    /\ ~(ci < Min(Len(data), Len(buffer)))
    /\ buffer' = [i \in 1..Len(buffer) |->
                     IF i <= Len(data) THEN buffer[i] ELSE Zero]
    /\ pcIn' = "l53"
    /\ UNCHANGED <<pitch_factor, bufLock, pitchLock, poisoned, data, ci,
                   outVars, mainVars, histVars, pureVars>>

\* The iterator is exhausted.
InLoopEnd ==
    /\ pcIn = "l50"
    /\ ~(ci < Min(Len(data), Len(buffer)))
    /\ pcIn' = "l53"
    /\ UNCHANGED <<sharedVars, data, ci, outVars, mainVars, histVars, pureVars>>

\* End of the closure: `buf` is dropped and the mutex released.
InReturn ==
    /\ pcIn = "l53"
    /\ bufLock' = "none"
    /\ committed' = buffer
    /\ pcIn' = "idle"
    /\ data' = <<>>
    /\ ci' = 0
    /\ UNCHANGED <<buffer, pitch_factor, pitchLock, poisoned, outVars,
                   mainVars, wroteSinceStart, pureVars>>

\* -------------------------------------------- output stream callback 63-70
\* The device invokes the callback with a block of m samples to fill.
OutInvokeOf(lens) ==
    /\ pcOut = "idle"
    /\ Running
    /\ \E m \in lens : output' = [i \in 1..m |-> Stale]
    /\ wroteSinceStart' = FALSE
    /\ pcOut' = "l64"
    /\ UNCHANGED <<sharedVars, inVars, factor, shifted, mainVars, committed,
                   pureVars>>

OutInvoke == OutInvokeOf(0..MaxOut)

\* let buf = buffer_out.lock().unwrap();
OutLockBuf ==
    /\ pcOut = "l64"
    /\ bufLock = "none"
    /\ "buffer" \notin poisoned
    /\ bufLock' = "out"
    /\ pcOut' = "l65"
    /\ UNCHANGED <<buffer, pitch_factor, pitchLock, poisoned, inVars, output,
                   factor, shifted, mainVars, histVars, pureVars>>

\* Variant of OutLockPitch that keeps the factor the closure was built with
\* instead of reading the shared one.
OutLockPitchStale ==
    /\ pcOut = "l65"
    /\ pitchLock = "none"
    /\ "pitch" \notin poisoned
    /\ pitchLock' = "out"
    /\ factor' = factor
    /\ pcOut' = "l65drop"
    /\ UNCHANGED <<buffer, pitch_factor, bufLock, poisoned, inVars, output,
                   shifted, mainVars, histVars, pureVars>>

\* let factor = *pitch_shared.lock().unwrap(); the lock is taken and the
\* value copied.
OutLockPitch ==
    /\ pcOut = "l65"
    /\ pitchLock = "none"
    /\ "pitch" \notin poisoned
    /\ pitchLock' = "out"
    /\ factor' = pitch_factor
    /\ pcOut' = "l65drop"
    /\ UNCHANGED <<buffer, pitch_factor, bufLock, poisoned, inVars, output,
                   shifted, mainVars, histVars, pureVars>>

\* End of the statement of line 65: the temporary guard is dropped.
OutUnlockPitch ==
    /\ pcOut = "l65drop"
    /\ pitchLock' = "none"
    /\ pcOut' = "l66"
    /\ UNCHANGED <<buffer, pitch_factor, bufLock, poisoned, inVars, output,
                   factor, shifted, mainVars, histVars, pureVars>>

\* Variant of OutShift that takes the samples out of the buffer as it
\* resamples them, as a queue would.
OutShiftDrain ==
    /\ pcOut = "l66"
    /\ shifted' = pitch_shift(buffer, factor)
    /\ buffer' = [i \in 1..Len(buffer) |-> Zero]
    /\ pcOut' = "l67"
    /\ UNCHANGED <<pitch_factor, bufLock, pitchLock, poisoned, inVars, output,
                   factor, mainVars, histVars, pureVars>>

\* let shifted = pitch_shift(&buf, factor);
OutShift ==
    /\ pcOut = "l66"
    /\ shifted' = pitch_shift(buffer, factor)
    /\ pcOut' = "l67"
    /\ UNCHANGED <<sharedVars, inVars, output, factor, mainVars, histVars,
                   pureVars>>

\* Variant of CopyOut that loops over `shifted` and so leaves the rest of
\* the block as it was.
CopyOutNoFill(out, shiftedSeq) ==
    [i \in 1..Len(out) |->
        IF i <= Len(shiftedSeq) THEN shiftedSeq[i] ELSE out[i]]

\* for i in 0..output.len() { output[i] = *shifted.get(i).unwrap_or(&0.0); }
CopyOut(out, shiftedSeq) ==
    [i \in 1..Len(out) |-> GetOrZero(shiftedSeq, i - 1)]

OutCopy ==
    /\ pcOut = "l67"
    /\ output' = CopyOut(output, shifted)
    /\ pcOut' = "l70"
    /\ UNCHANGED <<sharedVars, inVars, factor, shifted, mainVars, histVars,
                   pureVars>>

\* Variant of OutReturn that empties the buffer it has played.
OutReturnConsume ==
    /\ pcOut = "l70"
    /\ buffer' = [i \in 1..Len(buffer) |-> Zero]
    /\ bufLock' = "none"
    /\ pcOut' = "idle"
    /\ output' = <<>>
    /\ factor' = NORMAL
    /\ shifted' = <<>>
    /\ UNCHANGED <<pitch_factor, pitchLock, poisoned, inVars, mainVars,
                   histVars, pureVars>>

\* End of the closure: `buf` is dropped and the mutex released; the locals go.
OutReturn ==
    /\ pcOut = "l70"
    /\ bufLock' = "none"
    /\ pcOut' = "idle"
    /\ output' = <<>>
    /\ factor' = NORMAL
    /\ shifted' = <<>>
    /\ UNCHANGED <<buffer, pitch_factor, pitchLock, poisoned, inVars,
                   mainVars, histVars, pureVars>>


\* ------------------------------------------------------ command loop 80-112
\* Variant of Arms with the presets of `1` and `2` exchanged.
ArmsSwapped ==
    { [cmd |-> <<"1">>, lock |-> "l88", set |-> "l89", print |-> "l90",
       preset |-> HIGH],
      [cmd |-> <<"2">>, lock |-> "l93", set |-> "l94", print |-> "l95",
       preset |-> LOW],
      [cmd |-> <<"0">>, lock |-> "l98", set |-> "l99", print |-> "l100",
       preset |-> NORMAL] }

\* The arms of the match that set a preset: the command, the lines of the
\* lock, of the assignment and of the println!, and the value assigned.
Arms ==
    { [cmd |-> <<"1">>, lock |-> "l88", set |-> "l89", print |-> "l90",
       preset |-> LOW],
      [cmd |-> <<"2">>, lock |-> "l93", set |-> "l94", print |-> "l95",
       preset |-> HIGH],
      [cmd |-> <<"0">>, lock |-> "l98", set |-> "l99", print |-> "l100",
       preset |-> NORMAL] }

\* Variant of MatchArm whose default arm is the one of `0`.
MatchArmDefaultNormal(line) ==
    LET cmd == Trim(line)
    IN  IF cmd = <<"1">> THEN "l88"
        ELSE IF cmd = <<"2">> THEN "l93"
        ELSE IF cmd = <<"q">> THEN "l103" ELSE "l98"

\* The arm `input.trim()` selects: the line the arm starts at.
MatchArm(line) ==
    LET cmd == Trim(line)
    IN  IF \E a \in Arms : a.cmd = cmd
        THEN (CHOOSE a \in Arms : a.cmd = cmd).lock
        ELSE IF cmd = <<"q">> THEN "l103" ELSE "l107"

\* print!("> "); flush()?; let mut input = String::new(); read_line(..)?;
MainReadOf(lines) ==
    /\ pcMain = "l81"
    /\ \E line \in lines : input' = line
    /\ pcMain' = "l86"
    /\ UNCHANGED <<sharedVars, inVars, outVars, histVars, pureVars>>

MainRead == MainReadOf(Lines)

\* flush()? or read_line(..)? returns the I/O error from main.
MainIoError ==
    /\ pcMain = "l81"
    /\ pcMain' = "failed"
    /\ UNCHANGED <<sharedVars, inVars, outVars, input, histVars, pureVars>>

\* match input.trim() { ... }
MainMatch ==
    /\ pcMain = "l86"
    /\ pcMain' = MatchArm(input)
    /\ UNCHANGED <<sharedVars, inVars, outVars, input, histVars, pureVars>>

\* let mut factor = pitch_factor.lock().unwrap();
MainLock ==
    /\ \E a \in Arms : pcMain = a.lock /\ pcMain' = a.set
    /\ pitchLock = "none"
    /\ "pitch" \notin poisoned
    /\ pitchLock' = "main"
    /\ UNCHANGED <<buffer, pitch_factor, bufLock, poisoned, inVars, outVars,
                   input, histVars, pureVars>>

\* Variant of MainSet that also needs buffer's mutex while it holds the
\* guard of pitch_factor (the locks taken in the reverse order).
MainSetNeedsBuffer ==
    /\ bufLock = "none"
    /\ \E a \in Arms :
          /\ pcMain = a.set
          /\ pitch_factor' = a.preset
          /\ pcMain' = a.print
    /\ wroteSinceStart' = TRUE
    /\ UNCHANGED <<buffer, bufLock, pitchLock, poisoned, inVars, outVars,
                   input, committed, pureVars>>

\* Variant of MainSet that moves the factor by the preset's distance from
\* 1.0 instead of assigning the preset.
MainSetRelative ==
    /\ \E a \in Arms :
          /\ pcMain = a.set
          /\ pitch_factor' = pitch_factor + (a.preset - NORMAL)
          /\ pcMain' = a.print
    /\ wroteSinceStart' = TRUE
    /\ UNCHANGED <<buffer, bufLock, pitchLock, poisoned, inVars, outVars,
                   input, committed, pureVars>>

\* *factor = <preset>;
MainSet ==
    /\ \E a \in Arms :
          /\ pcMain = a.set
          /\ pitch_factor' = a.preset
          /\ pcMain' = a.print
    /\ wroteSinceStart' = TRUE
    /\ UNCHANGED <<buffer, bufLock, pitchLock, poisoned, inVars, outVars,
                   input, committed, pureVars>>

\* println!(" Set to ... pitch"); then the arm ends, the guard `factor` is
\* dropped, and the loop starts over.
MainPrintSet ==
    /\ \E a \in Arms : pcMain = a.print
    /\ pitchLock' = "none"
    /\ pcMain' = "l81"
    /\ input' = <<>>
    /\ UNCHANGED <<buffer, pitch_factor, bufLock, poisoned, inVars, outVars,
                   histVars, pureVars>>

\* println!(" Exiting..."); break; Ok(())
MainQuit ==
    /\ pcMain = "l103"
    /\ pcMain' = "returned"
    /\ input' = <<>>
    /\ UNCHANGED <<sharedVars, inVars, outVars, histVars, pureVars>>

\* Variant of MainUnknown that leaves the loop.
MainUnknownBreaks ==
    /\ pcMain = "l107"
    /\ pcMain' = "returned"
    /\ input' = <<>>
    /\ UNCHANGED <<sharedVars, inVars, outVars, histVars, pureVars>>

\* println!(" Unknown command. Use 1, 2, 0, or q."); the loop starts over.
MainUnknown ==
    /\ pcMain = "l107"
    /\ pcMain' = "l81"
    /\ input' = <<>>
    /\ UNCHANGED <<sharedVars, inVars, outVars, histVars, pureVars>>

\* ----------------------------------------------------------- specification
InStep == InInvoke \/ InLock \/ InWrite \/ InLoopEnd \/ InReturn

OutStep ==
    \/ OutInvoke \/ OutLockBuf \/ OutLockPitch \/ OutUnlockPitch
    \/ OutShift \/ OutCopy \/ OutReturn

MainStep ==
    \/ MainRead \/ MainIoError \/ MainMatch \/ MainLock \/ MainSet
    \/ MainPrintSet \/ MainQuit \/ MainUnknown

Next == InStep \/ OutStep \/ MainStep

Spec == Init /\ [][Next]_vars

\* ------------------------------------------------------- the locks alone
\* The program on fewer inputs, for the properties of the two mutexes, which
\* read no sample: an empty block, a block shorter and one longer than the
\* buffer; output blocks of one sample; a preset, an unknown command and `q`.
LockBlocks == {<<>>, <<Den>>, [i \in 1..(BufLen + 1) |-> Den]}
LockOutLens == {1}
LockLines == {<<"1", "\n">>, <<"x", "\n">>, <<"q", "\n">>}

LockNext ==
    \/ InInvokeOf(LockBlocks) \/ InLock \/ InWrite \/ InLoopEnd \/ InReturn
    \/ OutInvokeOf(LockOutLens) \/ OutLockBuf \/ OutLockPitch
    \/ OutUnlockPitch \/ OutShift \/ OutCopy \/ OutReturn
    \/ MainReadOf(LockLines) \/ MainIoError \/ MainMatch \/ MainLock
    \/ MainSet \/ MainPrintSet \/ MainQuit \/ MainUnknown

SpecLock == Init /\ [][LockNext]_vars

\* ------------------------------------------------------------ scheduling
\* The steps each thread takes by itself, as opposed to the audio subsystem
\* invoking a callback and to a line arriving on stdin.  Each thread that
\* can keep taking its step eventually takes it; a lock() that is able to
\* succeed only now and then has no such guarantee, std::sync::Mutex having
\* no acquisition order.  Console writes are taken to complete.
InRun == InLock \/ InWrite \/ InLoopEnd \/ InReturn

OutRun ==
    \/ OutLockBuf \/ OutLockPitch \/ OutUnlockPitch
    \/ OutShift \/ OutCopy \/ OutReturn

MainRun ==
    \/ MainMatch \/ MainLock \/ MainSet
    \/ MainPrintSet \/ MainQuit \/ MainUnknown

Fairness == WF_vars(InRun) /\ WF_vars(OutRun) /\ WF_vars(MainRun)

SpecLive == Init /\ [][LockNext]_vars /\ Fairness

\* ------------------------------------------------ panics and poisoning
\* print! and println! panic when the write to stdout fails.  In the arms
\* that set a preset the guard `factor` is alive at the println!, so the
\* unwinding drops it and poisons pitch_factor's mutex.
MainPrintPanic ==
    /\ pcMain \in {"l81", "l90", "l95", "l100", "l103", "l107"}
    /\ IF pitchLock = "main"
       THEN /\ pitchLock' = "none"
            /\ poisoned' = poisoned \cup {"pitch"}
       ELSE UNCHANGED <<pitchLock, poisoned>>
    /\ pcMain' = "panicked"
    /\ UNCHANGED <<buffer, pitch_factor, bufLock, inVars, outVars, input,
                   histVars, pureVars>>

\* Variant of OutPanicPitch that recovers the guard from the error
\* (PoisonError::into_inner) and goes on with the factor.
OutRecoverPitch ==
    /\ pcOut = "l65"
    /\ pitchLock = "none"
    /\ "pitch" \in poisoned
    /\ pitchLock' = "out"
    /\ factor' = pitch_factor
    /\ pcOut' = "l65drop"
    /\ UNCHANGED <<buffer, pitch_factor, bufLock, poisoned, inVars, output,
                   shifted, mainVars, histVars, pureVars>>

\* pitch_shared.lock() returns Err on the poisoned mutex and unwrap() panics;
\* the unwinding drops `buf` and poisons buffer's mutex.
OutPanicPitch ==
    /\ pcOut = "l65"
    /\ pitchLock = "none"
    /\ "pitch" \in poisoned
    /\ bufLock' = "none"
    /\ poisoned' = poisoned \cup {"buffer"}
    /\ pcOut' = "panicked"
    /\ UNCHANGED <<buffer, pitch_factor, pitchLock, inVars, output, factor,
                   shifted, mainVars, histVars, pureVars>>

\* buffer_in.lock() returns Err on the poisoned mutex and unwrap() panics.
InPanicBuf ==
    /\ pcIn = "l49"
    /\ bufLock = "none"
    /\ "buffer" \in poisoned
    /\ pcIn' = "panicked"
    /\ UNCHANGED <<sharedVars, data, ci, outVars, mainVars, histVars,
                   pureVars>>

FaultNext == Next \/ MainPrintPanic \/ OutPanicPitch \/ InPanicBuf

\* The program with console writes that can fail.
SpecFault == Init /\ [][FaultNext]_vars

\* ------------------------------------------- pitch_shift called on its own
ShiftInit ==
    /\ ProgramInit
    /\ samples \in ShiftInputs
    /\ pitch_arg \in ShiftFactors
    /\ result = <<>>
    /\ called = FALSE

ShiftCall ==
    /\ ~called
    /\ result' = pitch_shift(samples, pitch_arg)
    /\ called' = TRUE
    /\ UNCHANGED <<sharedVars, inVars, outVars, mainVars, histVars, samples,
                   pitch_arg>>

ShiftNext == ShiftCall

SpecShift == ShiftInit /\ [][ShiftNext]_vars


\* ------------------------------------------------------------------ claims
Zeros == [i \in 1..BufLen |-> Zero]

\* C1: whenever the playback callback is about to resample (line 66), the
\* buffer it reads is exactly what the last finished capture call left:
\* no capture call is part-way through its writes, so no mixture of an
\* unfinished call's slots and older slots is ever resampled.
C1_NoTornRead ==
    pcOut \in {"l65", "l65drop", "l66", "l67", "l70"} =>
        /\ buffer = committed
        /\ pcIn \notin {"l50", "l53"}

\* Playback resamples a captured (non-zero) buffer while a capture call that
\* would change it waits for the mutex.
C1_Witness ==
    /\ pcOut = "l66"
    /\ pcIn = "l49"
    /\ buffer # Zeros
    /\ Len(data) >= BufLen
    /\ \E i \in 1..BufLen : data[i] # buffer[i]

\* C2: a playback invocation during which no preset was written resamples
\* with the shared factor as it stands, that is with the last preset
\* written before the invocation started; only an invocation in flight
\* when a write happened may hold another value.
C2_FreshFactor ==
    /\ (pcOut \in {"l65drop", "l66", "l67", "l70"} /\ ~wroteSinceStart) =>
           factor = pitch_factor
    /\ (pcOut \in {"l67", "l70"} /\ ~wroteSinceStart) =>
           shifted = pitch_shift(buffer, pitch_factor)

\* The command loop has set the low preset and finished the command; a
\* playback invocation started afterwards has resampled with it.
C2_Witness ==
    /\ pcOut = "l67"
    /\ ~wroteSinceStart
    /\ pcMain = "l81"
    /\ pitch_factor = LOW
    /\ factor = LOW
    /\ buffer # Zeros

\* C3: pitch_shift returns a sequence of length floor(len(S) / f), that is
\* the one n with n * f <= len(S) < (n + 1) * f; it is empty when len(S) = 0
\* and when len(S) < f.
C3_OutputLength ==
    called =>
        LET n == Len(result)
            L == Len(samples)
        IN  /\ n * pitch_arg <= L * Den
            /\ L * Den < (n + 1) * pitch_arg
            /\ (L = 0 => result = <<>>)
            /\ (L * Den < pitch_arg => result = <<>>)

\* Three samples at factor 0.7 gave four samples (3 / 0.7 = 4.28..).
C3_Witness ==
    /\ called
    /\ pitch_arg = LOW
    /\ Len(samples) = 3
    /\ Len(result) = 4

\* C4: pitch_shift(S, 1.0) = S: the same length and the same value at
\* every index, the last one included.
C4_Identity ==
    (called /\ pitch_arg = NORMAL) => result = samples

\* A sequence of the greatest length whose last sample is not zero went
\* through pitch_shift at factor 1.0.
C4_Witness ==
    /\ called
    /\ pitch_arg = NORMAL
    /\ Len(samples) = MaxLen
    /\ samples[Len(samples)] # Zero
    /\ Len(result) = MaxLen

\* The neighbours and the weight the claim names for output index i,
\* written out from the claim.
C5_S1(i) ==
    LET idx == (i * pitch_arg) \div Den
    IN  IF idx < Len(samples) THEN samples[idx + 1] ELSE 0

C5_S2(i) ==
    LET idx == (i * pitch_arg) \div Den
    IN  IF idx + 1 < Len(samples) THEN samples[idx + 2] ELSE 0

C5_Frac(i) == (i * pitch_arg) - Den * ((i * pitch_arg) \div Den)

\* C5: every output[i] is s1 + frac * (s2 - s1) with p = i * f,
\* idx = floor(p), frac = p - idx, and 0 for a neighbour out of bounds;
\* [0,1,..,7] at 2.0 gives [0,2,4,6] and [0,2] at 0.5 gives [0,1,2,1].
C5_Interpolation ==
    called =>
        /\ \A k \in 1..Len(result) :
              Den * result[k] =
                  Den * C5_S1(k - 1)
                  + C5_Frac(k - 1) * (C5_S2(k - 1) - C5_S1(k - 1))
        /\ (samples = Ramp8 /\ pitch_arg = 20) => result = <<0, 20, 40, 60>>
        /\ (samples = Pair02 /\ pitch_arg = 5) => result = <<0, 10, 20, 10>>

\* [0,2] went through pitch_shift at factor 0.5: indices 2 and 3 read past
\* the end.
C5_Witness ==
    /\ called
    /\ samples = Pair02
    /\ pitch_arg = 5
    /\ Len(result) = 4

\* C6: when a capture call has finished its loop, the first
\* min(len(block), N) slots hold the block's samples and every other slot
\* holds what it held before the call; the buffer still has N slots, so a
\* sample of the block at index N or beyond is nowhere in it.
C6_CaptureCopy ==
    pcIn = "l53" =>
        /\ Len(buffer) = BufLen
        /\ \A i \in 1..BufLen :
              buffer[i] = IF i <= Min(Len(data), BufLen)
                          THEN data[i]
                          ELSE committed[i]

\* A block shorter than the buffer was copied over a buffer whose tail held
\* a captured sample, and changed the head.
C6_Witness ==
    /\ pcIn = "l53"
    /\ Len(data) > 0
    /\ Len(data) < BufLen
    /\ data[1] # committed[1]
    /\ \E i \in (Len(data) + 1)..BufLen : buffer[i] # Zero

\* C7: when a playback call has filled its block, every position holds the
\* resampled value at that index, or 0.0 from the end of the resampled
\* sequence on; none holds what the block held before.
C7_PlaybackFill ==
    pcOut = "l70" =>
        LET ps == pitch_shift(buffer, factor)
        IN  \A i \in 1..Len(output) :
               /\ output[i] = IF i <= Len(ps) THEN ps[i] ELSE 0
               /\ output[i] # Stale

\* A block longer than the resampled sequence was filled from a captured
\* buffer at the high preset.
C7_Witness ==
    /\ pcOut = "l70"
    /\ factor = HIGH
    /\ Len(output) > Len(shifted)
    /\ Len(shifted) > 0
    /\ \E i \in 1..Len(shifted) : shifted[i] # Zero

\* C8: the buffer changes only in a step of the capture callback's loop
\* and the factor only in a step of the command loop's assignment; a step
\* of the playback callback changes neither, a step of the capture
\* callback leaves the factor and a step of the command loop the buffer.
C8_WriteOwnership ==
    [][ /\ buffer' # buffer =>
              (pcIn = "l50" /\ ci' = ci + 1 /\ UNCHANGED <<outVars, mainVars>>)
        /\ pitch_factor' # pitch_factor =>
              (pcMain \in {"l89", "l94", "l99"} /\ pcMain' # pcMain
               /\ UNCHANGED <<inVars, outVars>>)
        /\ outVars' # outVars => UNCHANGED <<buffer, pitch_factor>>
        /\ inVars' # inVars => UNCHANGED pitch_factor
        /\ mainVars' # mainVars => UNCHANGED buffer
      ]_vars

\* All three contexts have acted: the buffer holds a captured sample, the
\* factor a preset other than the first, and a playback call has filled its
\* block.
C8_Witness ==
    /\ buffer # Zeros
    /\ pitch_factor = HIGH
    /\ pcOut = "l70"
    /\ Len(output) > 0

\* C9: the assignment of arm `1` leaves 0.7, that of arm `2` 1.3 and that
\* of arm `0` 1.0 in the factor, whatever it held; the lines that trim to
\* `1`, `2` and `0` are the ones that reach these arms.
C9_Presets ==
    [][ /\ (pcMain = "l89" /\ pcMain' # pcMain) =>
              (pcMain' = "l90" /\ pitch_factor' = 7)
        /\ (pcMain = "l94" /\ pcMain' # pcMain) =>
              (pcMain' = "l95" /\ pitch_factor' = 13)
        /\ (pcMain = "l99" /\ pcMain' # pcMain) =>
              (pcMain' = "l100" /\ pitch_factor' = 10)
        /\ (pcMain = "l86" /\ pcMain' # pcMain) =>
              /\ (Trim(input) = <<"1">>) = (pcMain' = "l88")
              /\ (Trim(input) = <<"2">>) = (pcMain' = "l93")
              /\ (Trim(input) = <<"0">>) = (pcMain' = "l98")
        /\ (pcMain = "l88" /\ pcMain' # pcMain) => pcMain' = "l89"
        /\ (pcMain = "l93" /\ pcMain' # pcMain) => pcMain' = "l94"
        /\ (pcMain = "l98" /\ pcMain' # pcMain) => pcMain' = "l99"
      ]_vars

\* Command `1` has just set the low preset while a playback call in flight
\* still holds the high preset it read before: the factor went from 1.3 to
\* 0.7 in one command.
C9_Witness ==
    /\ pcMain = "l90"
    /\ pitch_factor = LOW
    /\ pcOut = "l66"
    /\ factor = HIGH

Recognized == {<<"1">>, <<"2">>, <<"0">>, <<"q">>}

\* C10: a line that trims to none of `1`, `2`, `0`, `q` goes to the default
\* arm and from there back to the head of the loop; on the way the factor
\* keeps its value and the command loop takes no mutex.
C10_UnknownNoOp ==
    [][ /\ (pcMain = "l86" /\ Trim(input) \notin Recognized
            /\ pcMain' # pcMain) =>
              /\ pcMain' = "l107"
              /\ UNCHANGED <<buffer, pitch_factor, bufLock, pitchLock>>
        /\ (pcMain = "l107" /\ pcMain' # pcMain) =>
              /\ pcMain' = "l81"
              /\ UNCHANGED <<buffer, pitch_factor, bufLock, pitchLock>>
        /\ pcMain' = "l107" => (pcMain \in {"l86", "l107"}
                                /\ Trim(input) \notin Recognized)
        /\ pcMain = "l107" => pitch_factor' = pitch_factor
      ]_vars

\* The line "10" is in the default arm, the factor being the low preset.
C10_Witness ==
    /\ pcMain = "l107"
    /\ input = <<"1", "0", "\n">>
    /\ pitch_factor = LOW


\* A context is blocked when it is inside an invocation (or the command
\* loop is alive) and none of its steps can be taken.
InBlocked == pcIn # "idle" /\ ~ENABLED InStep
OutBlocked == pcOut # "idle" /\ ~ENABLED OutStep
MainBlocked == Running /\ ~ENABLED MainStep

\* C11: no cycle of waits.  A context is blocked only at a lock() whose
\* mutex another context holds; the holder of pitch_factor's mutex is never
\* blocked, the capture callback is never blocked while it holds buffer's
\* mutex, and the playback callback holding buffer's mutex is blocked only
\* at line 65, requesting pitch_factor's (buffer first, pitch_factor second,
\* never the reverse).  So every chain of waits ends at a context that can
\* step.
C11_NoDeadlock ==
    /\ InBlocked => (pcIn = "l49" /\ bufLock = "out")
    /\ OutBlocked =>
          \/ (pcOut = "l64" /\ bufLock = "in")
          \/ (pcOut = "l65" /\ pitchLock = "main")
    /\ MainBlocked => (pcMain \in {"l88", "l93", "l98"} /\ pitchLock = "out")
    /\ pitchLock = "out" => (bufLock = "out" /\ ~OutBlocked)
    /\ pitchLock = "main" => (bufLock # "main" /\ ~MainBlocked)
    /\ bufLock = "in" => (pitchLock # "in" /\ ~InBlocked)
    /\ (bufLock = "out" /\ OutBlocked) => pcOut = "l65"
    /\ ~(InBlocked /\ OutBlocked /\ MainBlocked)

\* The longest chain of waits: capture waits for buffer's mutex, held by
\* playback, which waits for pitch_factor's mutex, held by the command loop,
\* which can step.
C11_Witness ==
    /\ pcIn = "l49"
    /\ pcOut = "l65"
    /\ bufLock = "out"
    /\ pitchLock = "main"
    /\ InBlocked
    /\ OutBlocked
    /\ ~MainBlocked


\* C12: no queue and no backpressure.  Either callback can be invoked
\* whenever it is idle and takes buffer's mutex whenever it is free, whatever
\* the other one has or has not done.  The buffer is the only store: outside
\* a capture call it is what the last finished capture left, every playback
\* resamples exactly that with its factor (so two playbacks with no capture
\* and no command between them resample the same), and a finished capture
\* loop has put its own block on every slot it wrote (so of two captures
\* the later one wins).
C12_LastWriteWins ==
    /\ (pcOut = "idle" /\ Running) => ENABLED OutInvoke
    /\ (pcOut = "l64" /\ bufLock = "none") => ENABLED OutLockBuf
    /\ (pcIn = "idle" /\ Running) => ENABLED InInvoke
    /\ (pcIn = "l49" /\ bufLock = "none") => ENABLED InLock
    /\ pcIn \notin {"l50", "l53"} => buffer = committed
    /\ pcOut \in {"l67", "l70"} => shifted = pitch_shift(committed, factor)
    /\ pcIn = "l53" =>
          \A i \in 1..Min(Len(data), BufLen) : buffer[i] = data[i]

\* A capture call has overwritten a slot of an earlier captured block while
\* the playback callback is idle: nothing made it wait for that block to be
\* played.
C12_Witness ==
    /\ pcIn = "l53"
    /\ pcOut = "idle"
    /\ committed # Zeros
    /\ \E i \in 1..Min(Len(data), BufLen) :
          committed[i] # Zero /\ buffer[i] = Zero


\* The positions at which a callback works on the guarded data.
InHoldsBuffer == pcIn \in {"l50", "l53"}
OutHoldsBuffer == pcOut \in {"l65", "l65drop", "l66", "l67", "l70"}

\* C13: a lock() that meets a poisoned mutex ends its context there.  Once a
\* mutex is poisoned nobody holds it again; the step a context takes from a
\* lock() on a poisoned mutex is the panic, which changes neither the
\* buffer, the factor, the block to fill nor the resampled sequence; a
\* panicked callback stays panicked, having written no slot (capture) and
\* run no resampling and written no output sample (playback); the factor
\* never changes once its mutex is poisoned.
C13_PoisonIsFatal ==
    /\ [](/\ "buffer" \in poisoned =>
                (bufLock = "none" /\ ~InHoldsBuffer /\ ~OutHoldsBuffer)
          /\ "pitch" \in poisoned =>
                (pitchLock = "none" /\ pcOut # "l65drop"
                 /\ pcMain = "panicked")
          /\ pcIn = "panicked" => (ci = 0 /\ buffer = committed)
          /\ pcOut = "panicked" =>
                (shifted = <<>> /\ \A i \in 1..Len(output) : output[i] = Stale))
    /\ [][ /\ (pcIn = "l49" /\ "buffer" \in poisoned /\ pcIn' # pcIn) =>
                 (pcIn' = "panicked" /\ buffer' = buffer)
           /\ (pcOut = "l64" /\ "buffer" \in poisoned) => pcOut' = pcOut
           /\ (pcOut = "l65" /\ "pitch" \in poisoned /\ pcOut' # pcOut) =>
                 (pcOut' = "panicked" /\ UNCHANGED <<output, shifted, buffer>>)
           /\ "pitch" \in poisoned => pitch_factor' = pitch_factor
           /\ "buffer" \in poisoned => buffer' = buffer
           /\ pcIn = "panicked" => pcIn' = "panicked"
           /\ pcOut = "panicked" => UNCHANGED <<pcOut, output, shifted>>
           /\ pcMain = "panicked" => pcMain' = "panicked"
         ]_vars

\* The command loop panicked in a println! holding the guard of pitch_factor;
\* the playback callback then panicked at line 65 with its block untouched,
\* and the capture callback at line 49 with a block that would have changed
\* the buffer.
C13_Witness ==
    /\ poisoned = {"pitch", "buffer"}
    /\ pcMain = "panicked"
    /\ pcOut = "panicked"
    /\ Len(output) > 0
    /\ pcIn = "panicked"
    /\ Len(data) > 0
    /\ data[1] # buffer[1]


\* C14: main returns Ok from the `q` arm only, and the `q` arm is reached by
\* the lines that trim to `q` only; main returns Err only from the flush or
\* the read_line at the head of the loop; every other arm ends at the head
\* of the loop; the step through the `q` arm leaves the factor alone; once
\* returned, main stays returned.
C14_SingleExit ==
    [][ /\ (pcMain' = "returned" /\ pcMain # "returned") =>
              (pcMain = "l103" /\ Trim(input) = <<"q">>
               /\ pitch_factor' = pitch_factor)
        /\ (pcMain' = "failed" /\ pcMain # "failed") => pcMain = "l81"
        /\ (pcMain = "l86" /\ pcMain' # pcMain) =>
              (Trim(input) = <<"q">>) = (pcMain' = "l103")
        /\ (pcMain = "l103" /\ pcMain' # pcMain) => pcMain' = "returned"
        /\ (pcMain \in {"l90", "l95", "l100", "l107"} /\ pcMain' # pcMain) =>
              pcMain' = "l81"
        /\ (pcMain = "l81" /\ pcMain' # pcMain) =>
              pcMain' \in {"l86", "failed"}
        /\ pcMain \in {"l86", "l103"} => pitch_factor' = pitch_factor
        /\ pcMain \in {"returned", "failed"} => pcMain' = pcMain
      ]_vars

\* The session ended on `q` after a command had set the high preset, which
\* is still the factor.
C14_Witness ==
    /\ pcMain = "returned"
    /\ pitch_factor = HIGH


\* C15: the playback callback does not hold buffer's mutex when it is about
\* to run pitch_shift (line 66) or to copy the result into its block
\* (line 67).
C15_NoLockAcrossResampling ==
    pcOut \in {"l66", "l67"} => bufLock # "out"


\* C16: the mutex of pitch_factor is held only for the scalar read or write:
\* the playback callback holds it only between taking it and copying the
\* factor (line 65), and the command loop only while it is about to assign
\* the preset, never while it is about to print or to read a command.
C16_ScalarCriticalSection ==
    /\ pitchLock = "out" => pcOut = "l65drop"
    /\ pitchLock = "main" => \E a \in Arms : pcMain = a.set


Presets == {LOW, NORMAL, HIGH}

\* C17: pitch_factor starts at 1.0 and is in every reachable state one of
\* the presets 0.7, 1.0, 1.3, hence strictly positive; the factor the
\* playback callback passes to pitch_shift is one of them too.
C17_PositivePreset ==
    /\ pitch_factor = NORMAL
    /\ [](/\ pitch_factor \in Presets
          /\ pitch_factor > 0
          /\ pcOut \in {"l66", "l67", "l70"} => factor \in Presets /\ factor > 0)

\* A playback invocation is about to call pitch_shift with a preset other
\* than the initial one, after the command loop assigned it.
C17_Witness ==
    /\ pcOut = "l66"
    /\ factor = LOW
    /\ pitch_factor = HIGH


\* C18: in every reachable state the buffer has the length it was allocated
\* with, whatever the lengths of the capture blocks delivered and whatever
\* playback invocations and commands have run; so has the last committed
\* content.
C18_FixedLength ==
    /\ Len(buffer) = BufLen
    /\ Len(committed) = BufLen

\* A capture invocation has finished its loop over a block longer than the
\* buffer, after the command loop changed the factor, while a playback
\* invocation waits for the buffer.
C18_Witness ==
    /\ pcIn = "l53"
    /\ Len(data) > BufLen
    /\ ci = BufLen
    /\ pitch_factor # NORMAL
    /\ pcOut = "l64"


C20_SilentUntilCaptured ==
    /\ buffer = Zeros
    /\ [](buffer = Zeros =>
            /\ pcOut \in {"l67", "l70"} =>
                  \A i \in 1..Len(shifted) : shifted[i] = Zero
            /\ pcOut = "l70" =>
                  \A i \in 1..Len(output) : output[i] = Zero)
    /\ [][\A i \in 1..BufLen :
            buffer'[i] # buffer[i] =>
               /\ pcIn = "l50"
               /\ i = ci + 1
               /\ i <= Len(data)
               /\ buffer'[i] = data[i]]_vars

\* A playback invocation has filled its longest block at the low preset
\* from the buffer no capture has written yet, the resampled sequence being
\* shorter than the block, while a capture invocation with a non-zero
\* sample waits for the buffer.
C20_Witness ==
    /\ pcOut = "l70"
    /\ buffer = Zeros
    /\ factor = LOW
    /\ Len(output) = MaxOut
    /\ Len(shifted) < Len(output)
    /\ pcIn = "l49"
    /\ Len(data) > 0
    /\ data[1] # Zero

=============================================================================
